---- MODULE Spec2Model ----
(***************************************************************************)
(* Specification versioning and generation-request lifecycle of the        *)
(* Product Describer backend (src/backend/services, src/backend/api).      *)
(*                                                                         *)
(* The database tables are the state: product_specifications (specs),      *)
(* product_reference_images (refs), generation_requests (requests) and     *)
(* generated_images (images), together with the files written by the       *)
(* storage service.  Every service method / route handler is an action.    *)
(* process_generation is split at its commits and at its blocking adapter  *)
(* calls, because other handlers run between them.                         *)
(***************************************************************************)
EXTENDS Integers, Sequences, FiniteSets, TLC

(***************************************************************************)
(* Bounds of the model.                                                    *)
(***************************************************************************)
NumProducts == 2      \* products 1..NumProducts exist
MaxSpecs == 3         \* rows of product_specifications in StoreSpec
MaxBindSpecs == 2     \* rows of product_specifications in BindSpec
MaxImageCount == 2    \* image_count drawn from 1..MaxImageCount
MaxRuns == 2          \* invocations of process_generation per request
MaxRaceSpecs == 2     \* specifications created before the workers start
MaxOrder == 4         \* display_order values 0..MaxOrder are handed out
MaxOrphans == 1       \* files in a refs directory that no row points to

Products == 1..NumProducts
SpecIds == 1..MaxSpecs
\* The generation specifications follow the life of one generation request.
RequestIds == {1}
\* The ids two requests of a concurrent run get from the serial.
PairIds == {1, 2}

\* Column value of a nullable integer / timestamp column that is not set.
NULL == 0
\* Column value of error_message when it is not set.
NoMessage == "null"

\* Document texts.  "yamlBad" is a text yaml.safe_load rejects.
GoodDocs == {"yamlA", "yamlB"}
Docs == GoodDocs \cup {"yamlBad"}
\* The texts yaml.safe_load raises yaml.YAMLError for.
RejectedDocs == {"yamlBad", "unparseable"}
\* The texts yaml.safe_load turns into a value that is not a mapping.
ScalarDocs == {"scalar"}
\* What a client sends as yaml_content: a document with every section, a
\* mapping without any of them ("bare"), a scalar, or malformed YAML.
EditDocs == Docs \cup ScalarDocs \cup {"bare"}

VARIABLES
    specs,       \* product_specifications: sequence of rows, id = position
    specFiles,   \* storage: <<product, version>> -> text of v{version}.yaml
    refs,        \* product_reference_images per product, in id order
    refFiles,    \* storage: number of files in the refs directory per product
    assigned,    \* per product: highest display_order an upload gave (history)
    requests,    \* generation_requests: id -> row (deleted rows are absent)
    nextRequest, \* next id of the generation_requests serial
    images,      \* generated_images: committed rows in id order
    genFiles,    \* storage: paths of generated image files -> byte size
    proc,        \* per request: position and locals of process_generation
    calls,       \* per request: the adapter calls made so far (history)
    bg,          \* per request: the background task added by the endpoint
    cancelAt,    \* per request: status at its first cancel_generation call
    clock,       \* datetime.now(): a fresh, larger value at every read
    txn,         \* per concurrent worker: its handler, position and locals
    upl,         \* per concurrent worker: position and locals of its upload
    gpt,         \* the analysis in progress: position and locals of the analyzer
    lastOp       \* the handler that completed last and its outcome (history)

vars == <<specs, specFiles, refs, refFiles, assigned, requests, nextRequest,
          images, genFiles, proc, calls, bg, cancelAt, clock, txn, upl, gpt,
          lastOp>>

specVars == <<specs, specFiles>>
refVars == <<refs, refFiles, assigned>>
raceVars == <<txn, upl>>
analyzerVars == <<gpt>>
genVars == <<requests, nextRequest, images, genFiles, proc, calls, bg,
            cancelAt, clock>>

(***************************************************************************)
(* Queries on product_specifications.                                      *)
(***************************************************************************)
SpecsOf(p) == {s \in DOMAIN specs : specs[s].product_id = p}

ActiveSpecsOf(p) == {s \in SpecsOf(p) : specs[s].is_active}

RECURSIVE SetMax(_)
SetMax(S) ==
    IF S = {} THEN 0
    ELSE LET x == CHOOSE y \in S : TRUE
             m == SetMax(S \ {x})
         IN IF x > m THEN x ELSE m

\* create_specification: version of the row with the highest version, plus 1.
NextVersionByMax(p) ==
    IF SpecsOf(p) = {} THEN 1
    ELSE SetMax({specs[s].version : s \in SpecsOf(p)}) + 1

\* Mutant of NextVersionByCount: the row count is used as the version.
NextVersionByCountNoIncrement(p) == Cardinality(SpecsOf(p))

\* analyze_product: number of rows of the product, plus 1.
NextVersionByCount(p) == Cardinality(SpecsOf(p)) + 1

\* Mutant of DeactivateAll: the product filter is lost.
DeactivateEveryProduct(rows, p) ==
    [s \in DOMAIN rows |-> [rows[s] EXCEPT !.is_active = FALSE]]

\* Query.update({"is_active": False}) over every row of the product.
DeactivateAll(rows, p) ==
    [s \in DOMAIN rows |->
        IF rows[s].product_id = p
        THEN [rows[s] EXCEPT !.is_active = FALSE] ELSE rows[s]]

\* Mutant of DeactivateActive: the update is skipped.
DeactivateNone(rows, p) == rows

\* Query.update({"is_active": False}) over the rows of the product with
\* is_active == True.
DeactivateActive(rows, p) ==
    [s \in DOMAIN rows |->
        IF rows[s].product_id = p /\ rows[s].is_active
        THEN [rows[s] EXCEPT !.is_active = FALSE] ELSE rows[s]]

\* StorageService.save_specification: open(v{version}.yaml, "w") and write.
SaveSpecification(files, p, text, version) ==
    [k \in (DOMAIN files) \cup {<<p, version>>} |->
        IF k = <<p, version>> THEN text ELSE files[k]]

\* Value of confidence_overall, primary_dimensions, primary_colors and
\* material_type when none of them is set.
NoFields == "null"

\* A new row as create_specification builds it: the derived columns unset.
SpecRow(p, v, text, tmpl, cnt) ==
    [product_id |-> p, version |-> v, yaml_content |-> text,
     is_active |-> TRUE, template_version |-> tmpl, image_count |-> cnt,
     derived |-> NoFields]

\* analyze_product, lines 56-78 (and update_specification, 139-158): the
\* derived columns read with .get from the parsed mapping.  The documents
\* yamlA and yamlB carry metadata, dimensions, colors and materials (the
\* columns then hold what that document says); any other mapping has none
\* of these keys.
DerivedFields(text) == IF text \in GoodDocs THEN text ELSE NoFields

AnalyzedRow(p, v, text, tmpl, cnt) ==
    [SpecRow(p, v, text, tmpl, cnt) EXCEPT !.derived = DerivedFields(text)]

(***************************************************************************)
(* Specification handlers.                                                 *)
(***************************************************************************)
\* SpecificationService.create_specification (POST /products/{id}/specifications)
CreateSpecification(p, text) ==
    /\ LET v == NextVersionByMax(p) IN
        /\ specFiles' = SaveSpecification(specFiles, p, text, v)
        /\ specs' = Append(DeactivateAll(specs, p),
                           SpecRow(p, v, text, "1.0", NULL))
    /\ lastOp' = [op |-> "create_specification", id |-> Len(specs) + 1,
                  res |-> "ok"]
    /\ UNCHANGED <<analyzerVars, raceVars, refVars, genVars>>

\* analyze_product, lines 53-115: dump the mapping, count the rows,
\* deactivate the active ones, insert the new row, commit, save the file.
PersistAnalysis(p, text) ==
    LET v == NextVersionByCount(p) IN
    /\ specs' = Append(DeactivateActive(specs, p),
                       AnalyzedRow(p, v, text, "1.0", Len(refs[p])))
    /\ specFiles' = SaveSpecification(specFiles, p, text, v)
    /\ lastOp' = [op |-> "analyze_product", id |-> Len(specs) + 1,
                  res |-> "ok"]

\* POST /products/{id}/analyze and AnalysisService.analyze_product.
\* out is what the analyzer does: it raises, or returns a mapping that
\* yaml.dump turns into the text out.
AnalyzeProduct(p, out) ==
    /\ IF Len(refs[p]) = 0
       THEN /\ lastOp' = [op |-> "analyze_product", id |-> NULL, res |-> "400"]
            /\ UNCHANGED specVars
       ELSE IF out = "raise"
       THEN /\ lastOp' = [op |-> "analyze_product", id |-> NULL, res |-> "500"]
            /\ UNCHANGED specVars
       ELSE PersistAnalysis(p, out)
    /\ UNCHANGED <<analyzerVars, raceVars, refVars, genVars>>

\* SpecificationService.activate_specification
\* (PUT /products/{id}/specifications/{spec_id}/activate)
ActivateSpecification(s) ==
    /\ IF s \notin DOMAIN specs
       THEN /\ lastOp' = [op |-> "activate_specification", id |-> s,
                          res |-> "404"]
            /\ UNCHANGED specs
       ELSE /\ specs' = [DeactivateAll(specs, specs[s].product_id)
                            EXCEPT ![s].is_active = TRUE]
            /\ lastOp' = [op |-> "activate_specification", id |-> s,
                          res |-> "ok"]
    /\ UNCHANGED <<analyzerVars, raceVars, specFiles, refVars, genVars>>

\* POST /specifications/{spec_id}/activate (api/analysis.py)
ActivateSpecificationApi(s) ==
    /\ IF s \notin DOMAIN specs
       THEN /\ lastOp' = [op |-> "activate_api", id |-> s, res |-> "404"]
            /\ UNCHANGED specs
       ELSE /\ specs' = [DeactivateActive(specs, specs[s].product_id)
                            EXCEPT ![s].is_active = TRUE]
            /\ lastOp' = [op |-> "activate_api", id |-> s, res |-> "ok"]
    /\ UNCHANGED <<analyzerVars, raceVars, specFiles, refVars, genVars>>

\* PUT /specifications/{spec_id} and AnalysisService.update_specification.
\* The new row takes spec.version + 1 and the template_version and
\* image_count of the row it was made from; only that row is deactivated.
\* A text yaml.safe_load rejects, or loads as a value without .get, ends in
\* the route's 500 before anything is written.
UpdateSpecification(s, text) ==
    /\ IF s \notin DOMAIN specs
       THEN /\ lastOp' = [op |-> "update_specification", id |-> s,
                          res |-> "404"]
            /\ UNCHANGED specVars
       ELSE IF text \in RejectedDocs \cup ScalarDocs
       THEN /\ lastOp' = [op |-> "update_specification", id |-> s,
                          res |-> "500"]
            /\ UNCHANGED specVars
       ELSE LET spec == specs[s]
                v == spec.version + 1
            IN /\ specs' = Append([specs EXCEPT ![s].is_active = FALSE],
                              AnalyzedRow(spec.product_id, v, text,
                                          spec.template_version,
                                          spec.image_count))
               /\ specFiles' = SaveSpecification(specFiles, spec.product_id,
                                                 text, v)
               /\ lastOp' = [op |-> "update_specification",
                             id |-> Len(specs) + 1, res |-> "ok"]
    /\ UNCHANGED <<analyzerVars, raceVars, refVars, genVars>>

(***************************************************************************)
(* POST /products/{id}/analyze step by step: GPTAnalyzer._call_gpt_api with *)
(* its retry loop, then parsing and analyze_product's persistence.          *)
(***************************************************************************)
\* constants.py
MAX_RETRY_ATTEMPTS == 3
RETRY_BACKOFF_FACTOR == 2

\* A response that wraps its YAML in a markdown code block; <fence> stands
\* for the three backquotes.
Fenced(text) == "<fence>yaml " \o text \o " <fence>"

\* Texts the model may put into a response: a YAML mapping (the document
\* yamlA), text yaml.safe_load rejects, text that parses to a scalar, and
\* nothing.
Payloads == {"yamlA", "unparseable", "scalar", ""}

\* What chat.completions.create returns as message content: one of the
\* non-empty texts, bare or in a code block, an empty code block, or no
\* content at all ("empty": None or the empty string).
Responses ==
    (Payloads \ {""}) \cup {Fenced(t) : t \in Payloads} \cup {"empty"}
ApiOutcomes == Responses \cup {"raise"}

IdleAnalyzer == [pc |-> "idle", p |-> NULL, attempt |-> 0, log |-> <<>>,
                 slept |-> <<>>, response |-> "none", result |-> "none"]

\* Mutant of IsLastAttempt: one more attempt is allowed.
IsLastAttemptOffByOne(attempt) == attempt = MAX_RETRY_ATTEMPTS + 1

\* _call_gpt_api, line 364: attempt == MAX_RETRY_ATTEMPTS.
IsLastAttempt(attempt) == attempt = MAX_RETRY_ATTEMPTS

\* Mutant of ParseYaml: text that cannot be parsed fails the analysis.
ParseYamlStrict(yaml_text, original_response) ==
    IF yaml_text = "" \/ yaml_text \in RejectedDocs
    THEN [kind |-> "YAMLParsingError"]
    ELSE IF yaml_text = "scalar" THEN [kind |-> "scalar", text |-> yaml_text]
    ELSE [kind |-> "mapping", text |-> yaml_text]

\* _extract_yaml_from_response: the fenced block or the whole text, stripped.
ExtractYamlFromResponse(response) ==
    IF \E t \in Payloads : response = Fenced(t)
    THEN CHOOSE t \in Payloads : response = Fenced(t)
    ELSE response

\* _parse_yaml: empty text raises YAMLParsingError; text safe_load rejects
\* gives the mapping {"raw_response": original_response}.
ParseYaml(yaml_text, original_response) ==
    IF yaml_text = "" THEN [kind |-> "YAMLParsingError"]
    ELSE IF yaml_text \in RejectedDocs
    THEN [kind |-> "raw_response", text |-> original_response]
    ELSE IF yaml_text = "scalar" THEN [kind |-> "scalar", text |-> yaml_text]
    ELSE [kind |-> "mapping", text |-> yaml_text]

\* yaml.dump(parsed_yaml, sort_keys=False) of a mapping.
YamlDump(parsed) ==
    IF parsed.kind = "raw_response" THEN "raw_response: " \o parsed.text
    ELSE parsed.text

\* The route starts: 400 without reference images, else the analyzer is
\* called and enters the retry loop with attempt 1.
AnalyzeBegin(p) ==
    /\ gpt.pc \in {"idle", "done"}
    /\ IF Len(refs[p]) = 0
       THEN /\ lastOp' = [op |-> "analyze_product", id |-> NULL, res |-> "400"]
            /\ gpt' = [IdleAnalyzer EXCEPT !.pc = "done", !.p = p,
                                           !.result = "400"]
       ELSE /\ gpt' = [IdleAnalyzer EXCEPT !.pc = "call", !.p = p,
                                           !.attempt = 1]
            /\ UNCHANGED lastOp
    /\ UNCHANGED <<raceVars, specVars, refVars, genVars>>

\* _call_gpt_api, lines 343-381: one chat.completions.create call.  An
\* exception on the last attempt raises APIError; a response ends the loop
\* and is returned unless it is empty.
CallGptApi(out) ==
    /\ gpt.pc = "call"
    /\ IF out = "raise"
       THEN IF IsLastAttempt(gpt.attempt)
            THEN /\ gpt' = [gpt EXCEPT !.pc = "done", !.log = Append(@, out),
                                       !.result = "APIError"]
                 /\ lastOp' = [op |-> "analyze_product", id |-> NULL,
                               res |-> "500"]
            ELSE /\ gpt' = [gpt EXCEPT !.pc = "backoff",
                                       !.log = Append(@, out)]
                 /\ UNCHANGED lastOp
       ELSE IF out = "empty"
       THEN /\ gpt' = [gpt EXCEPT !.pc = "done", !.log = Append(@, out),
                                  !.result = "APIError"]
            /\ lastOp' = [op |-> "analyze_product", id |-> NULL, res |-> "500"]
       ELSE /\ gpt' = [gpt EXCEPT !.pc = "parse", !.log = Append(@, out),
                                  !.response = out]
            /\ UNCHANGED lastOp
    /\ UNCHANGED <<raceVars, specVars, refVars, genVars>>

\* _call_gpt_api, lines 369-373: time.sleep(RETRY_BACKOFF_FACTOR**attempt).
Backoff ==
    /\ gpt.pc = "backoff"
    /\ gpt' = [gpt EXCEPT !.pc = "call", !.attempt = @ + 1,
                  !.slept = Append(@, RETRY_BACKOFF_FACTOR ^ gpt.attempt)]
    /\ UNCHANGED <<raceVars, specVars, refVars, genVars, lastOp>>

\* The analyzer parses the response and analyze_product persists the
\* result.  YAMLParsingError, or a parsed value without .get, ends in the
\* route's 500.
AnalyzeFinish ==
    /\ gpt.pc = "parse"
    /\ LET parsed == ParseYaml(ExtractYamlFromResponse(gpt.response),
                               gpt.response)
       IN IF parsed.kind \in {"YAMLParsingError", "scalar"}
          THEN /\ gpt' = [gpt EXCEPT !.pc = "done",
                                     !.result = IF parsed.kind = "scalar"
                                                THEN "AttributeError"
                                                ELSE parsed.kind]
               /\ lastOp' = [op |-> "analyze_product", id |-> NULL,
                             res |-> "500"]
               /\ UNCHANGED specVars
          ELSE /\ gpt' = [gpt EXCEPT !.pc = "done", !.result = parsed.kind]
               /\ PersistAnalysis(gpt.p, YamlDump(parsed))
    /\ UNCHANGED <<raceVars, refVars, genVars>>

(***************************************************************************)
(* Specification handlers run by concurrent workers.  Each worker has its  *)
(* own session (get_db) and transaction; specs is the committed table.     *)
(* Under READ COMMITTED, the default of the engine, a statement sees the    *)
(* rows committed before it began, a bulk UPDATE waits for rows another     *)
(* open transaction has updated, and the INSERT of db.add is sent by the    *)
(* flush of db.commit().  The table has no unique constraint on             *)
(* (product_id, version) or on the active row, so no commit is rejected.    *)
(***************************************************************************)
Workers == {1, 2}

IdleTxn == [pc |-> "idle", op |-> "none", p |-> NULL, text |-> "none",
            s |-> NULL, version |-> NULL, hit |-> {}]

\* The worker's transaction holds the row locks of its bulk UPDATE.
HoldsLocks(w) == txn[w].pc \in {"presave", "commit"}

\* create_specification, lines 77-92: read the highest version.
CreateSpecificationRead(w, p, text) ==
    /\ txn[w].pc = "idle"
    /\ txn' = [txn EXCEPT ![w] = [pc |-> "update", op |-> "create_specification",
                                  p |-> p, text |-> text, s |-> NULL,
                                  version |-> NextVersionByMax(p), hit |-> {}]]
    /\ UNCHANGED <<analyzerVars, upl, specVars, refVars, genVars, lastOp>>

\* analyze_product, lines 40-85: run the analyzer, count the rows.
AnalyzeProductRead(w, p, text) ==
    /\ txn[w].pc = "idle"
    /\ Len(refs[p]) > 0
    /\ txn' = [txn EXCEPT ![w] = [pc |-> "update", op |-> "analyze_product",
                                  p |-> p, text |-> text, s |-> NULL,
                                  version |-> NextVersionByCount(p), hit |-> {}]]
    /\ UNCHANGED <<analyzerVars, upl, specVars, refVars, genVars, lastOp>>

\* activate_specification, lines 122-131: load the row, 404 if there is none.
ActivateSpecificationRead(w, s) ==
    /\ txn[w].pc = "idle"
    /\ IF s \notin DOMAIN specs
       THEN /\ txn' = [txn EXCEPT ![w].pc = "done",
                                  ![w].op = "activate_specification", ![w].s = s]
            /\ lastOp' = [op |-> "activate_specification", id |-> s,
                          res |-> "404"]
       ELSE /\ txn' = [txn EXCEPT ![w] = [pc |-> "update",
                          op |-> "activate_specification",
                          p |-> specs[s].product_id, text |-> "none", s |-> s,
                          version |-> NULL, hit |-> {}]]
            /\ UNCHANGED lastOp
    /\ UNCHANGED <<analyzerVars, upl, specVars, refVars, genVars>>

\* The bulk UPDATE ... SET is_active = false begins: the rows it matches are
\* those of the committed table now (all rows of the product, or for
\* analyze_product the active ones).
BulkUpdateBegin(w) ==
    /\ txn[w].pc = "update"
    /\ txn' = [txn EXCEPT ![w].pc = "locking",
                          ![w].hit = IF txn[w].op = "analyze_product"
                                     THEN ActiveSpecsOf(txn[w].p)
                                     ELSE SpecsOf(txn[w].p)]
    /\ UNCHANGED <<analyzerVars, upl, specVars, refVars, genVars, lastOp>>

\* The bulk UPDATE returns once no other open transaction holds one of its
\* rows; a row committed meanwhile by another transaction is not among them.
BulkUpdateEnd(w) ==
    /\ txn[w].pc = "locking"
    /\ \A v \in Workers \ {w} :
          HoldsLocks(v) => txn[v].hit \cap txn[w].hit = {}
    /\ txn' = [txn EXCEPT ![w].pc = IF txn[w].op = "create_specification"
                                    THEN "presave" ELSE "commit"]
    /\ UNCHANGED <<analyzerVars, upl, specVars, refVars, genVars, lastOp>>

\* create_specification, lines 99-102: save_specification before the commit.
SaveBeforeCommit(w) ==
    /\ txn[w].pc = "presave"
    /\ specFiles' = SaveSpecification(specFiles, txn[w].p, txn[w].text,
                                      txn[w].version)
    /\ txn' = [txn EXCEPT ![w].pc = "commit"]
    /\ UNCHANGED <<analyzerVars, upl, specs, refVars, genVars, lastOp>>

\* The committed table after the transaction's UPDATE took effect.
Deactivated(w) ==
    [s \in DOMAIN specs |->
        IF s \in txn[w].hit THEN [specs[s] EXCEPT !.is_active = FALSE]
        ELSE specs[s]]

\* db.commit(): the row changes of the transaction become visible at once.
Commit(w) ==
    /\ txn[w].pc = "commit"
    /\ IF txn[w].op = "activate_specification"
       THEN /\ specs' = [Deactivated(w) EXCEPT ![txn[w].s].is_active = TRUE]
            /\ txn' = [txn EXCEPT ![w].pc = "done"]
            /\ lastOp' = [op |-> txn[w].op, id |-> txn[w].s, res |-> "ok"]
       ELSE IF txn[w].op = "create_specification"
       THEN /\ specs' = Append(Deactivated(w),
                           SpecRow(txn[w].p, txn[w].version, txn[w].text,
                                   "1.0", NULL))
            /\ txn' = [txn EXCEPT ![w].pc = "done", ![w].s = Len(specs) + 1]
            /\ lastOp' = [op |-> txn[w].op, id |-> Len(specs) + 1,
                          res |-> "ok"]
       ELSE /\ specs' = Append(Deactivated(w),
                           AnalyzedRow(txn[w].p, txn[w].version, txn[w].text,
                                       "1.0", Len(refs[txn[w].p])))
            /\ txn' = [txn EXCEPT ![w].pc = "postsave",
                                  ![w].s = Len(specs) + 1]
            /\ UNCHANGED lastOp
    /\ UNCHANGED <<analyzerVars, upl, specFiles, refVars, genVars>>

\* analyze_product, lines 112-115: save_specification after the commit.
SaveAfterCommit(w) ==
    /\ txn[w].pc = "postsave"
    /\ specFiles' = SaveSpecification(specFiles, txn[w].p, txn[w].text,
                                      txn[w].version)
    /\ txn' = [txn EXCEPT ![w].pc = "done"]
    /\ lastOp' = [op |-> txn[w].op, id |-> txn[w].s, res |-> "ok"]
    /\ UNCHANGED <<analyzerVars, upl, specs, refVars, genVars>>

(***************************************************************************)
(* Generation requests.                                                    *)
(***************************************************************************)
Terminal == {"completed", "failed"}
Ended == {"returned", "raised"}

IdleProc == [pc |-> "idle", runs |-> 0, spec |-> NULL, yaml |-> "none",
             ref |-> NULL, i |-> 0, pending |-> <<>>,
             active_seen |-> {}, created_active |-> {}]

\* Rows of generated_images of a request, in id (creation) order.
ImagesOf(r) ==
    SelectSeq(images, LAMBDA img : img.generation_request_id = r)

IndicesOf(r) == [k \in DOMAIN ImagesOf(r) |-> ImagesOf(r)[k].generation_index]

\* GenerationService.create_generation_request: insert with status pending.
NewRequest(p, sid, n) ==
    [product_id |-> p, specification_id |-> sid, image_count |-> n,
     status |-> "pending", started_at |-> NULL, completed_at |-> NULL,
     error_message |-> NoMessage]

InsertRequest(p, sid, n) ==
    /\ requests' = [r \in (DOMAIN requests) \cup {nextRequest} |->
                      IF r = nextRequest THEN NewRequest(p, sid, n)
                      ELSE requests[r]]
    /\ nextRequest' = nextRequest + 1
    /\ proc' = [proc EXCEPT ![nextRequest].created_active = ActiveSpecsOf(p)]

\* The commit of the insert.  specification_id is a foreign key to
\* product_specifications.id: PostgreSQL, the configured default, rejects an
\* id of no row with IntegrityError; a DATABASE_URL of an engine that does
\* not enforce foreign keys stores the row.
ForeignKeyOutcomes(sid) ==
    IF sid = NULL \/ sid \in DOMAIN specs THEN {"ok"}
    ELSE {"ok", "IntegrityError"}

\* GenerationService.create_generation_request called directly.
CreateGenerationRequest(p, sid, n) ==
    /\ \E fk \in ForeignKeyOutcomes(sid) :
          IF fk = "ok"
          THEN /\ InsertRequest(p, sid, n)
               /\ lastOp' = [op |-> "create_generation_request",
                             id |-> nextRequest, res |-> "ok"]
          ELSE /\ lastOp' = [op |-> "create_generation_request",
                             id |-> NULL, res |-> fk]
               /\ UNCHANGED <<requests, nextRequest, proc>>
    /\ UNCHANGED <<analyzerVars, raceVars, specVars, refVars, images, genFiles, calls, bg, cancelAt,
                   clock>>

\* POST /products/{product_id}/generate: insert the request, then
\* background_tasks.add_task(generation_service.process_generation, request.id)
CreateGeneration(p, sid, n) ==
    /\ \E fk \in ForeignKeyOutcomes(sid) :
          IF fk = "ok"
          THEN /\ InsertRequest(p, sid, n)
               /\ bg' = [bg EXCEPT ![nextRequest] = "scheduled"]
               /\ lastOp' = [op |-> "create_generation", id |-> nextRequest,
                             res |-> "ok"]
          ELSE /\ lastOp' = [op |-> "create_generation", id |-> NULL,
                             res |-> fk]
               /\ UNCHANGED <<requests, nextRequest, proc, bg>>
    /\ UNCHANGED <<analyzerVars, raceVars, specVars, refVars, images, genFiles, calls, cancelAt, clock>>

\* The background task of the endpoint: process_generation(request.id).
\* process_generation takes (request, db); the call has one argument, so
\* Python raises TypeError before the body of process_generation runs.
BackgroundTask(r) ==
    /\ bg[r] = "scheduled"
    /\ bg' = [bg EXCEPT ![r] = "raised"]
    /\ lastOp' = [op |-> "background_task", id |-> r, res |-> "TypeError"]
    /\ UNCHANGED <<analyzerVars, raceVars, specVars, refVars, requests, nextRequest, images, genFiles,
                   proc, calls, cancelAt, clock>>

\* process_generation, lines 141-145: status processing, started_at, commit.
\* The method has no guard on the status of the request it is given.
BeginProcessing(r) ==
    /\ requests' = [requests EXCEPT ![r].status = "processing",
                                    ![r].started_at = clock]
    /\ clock' = clock + 1
    /\ proc' = [proc EXCEPT ![r].pc = "started", ![r].runs = @ + 1,
                            ![r].spec = NULL, ![r].yaml = "none",
                            ![r].ref = NULL, ![r].i = 0, ![r].pending = <<>>,
                            ![r].active_seen = {}]
    /\ UNCHANGED <<analyzerVars, raceVars, specVars, refVars, nextRequest, images, genFiles, calls, bg,
                   cancelAt, lastOp>>

\* process_generation(request, db) invoked on a request not processed before.
ProcessStart(r) ==
    /\ r \in DOMAIN requests
    /\ proc[r].pc = "idle"
    /\ BeginProcessing(r)

\* process_generation(request, db) invoked on a request an earlier
\* invocation has already processed.
ProcessAgain(r) ==
    /\ r \in DOMAIN requests
    /\ proc[r].pc \in Ended
    /\ BeginProcessing(r)

\* Mutant of CommitPending: the rows added to the session are dropped.
RollbackPending(rows, pending) == rows

\* db.commit() flushes the GeneratedImage rows added to the session.
CommitPending(rows, pending) == rows \o pending

\* process_generation, lines 232-238: the except handler.
Fail(r, msg) ==
    /\ requests' = [requests EXCEPT ![r].status = "failed",
                                    ![r].error_message = msg,
                                    ![r].completed_at = clock]
    /\ clock' = clock + 1
    /\ images' = CommitPending(images, proc[r].pending)
    /\ lastOp' = [op |-> "process_generation", id |-> r, res |-> "raised"]

\* Mutant of ResolveSpecification: the newest version of the product is used.
ResolveLatest(r) ==
    IF requests[r].specification_id # NULL
    THEN {s \in DOMAIN specs : s = requests[r].specification_id}
    ELSE {s \in SpecsOf(requests[r].product_id) :
             \A t \in SpecsOf(requests[r].product_id) : t <= s}

\* Mutant of ResolveSpecification: specification_id is ignored.
ResolveActive(r) == ActiveSpecsOf(requests[r].product_id)

\* process_generation, lines 150-159: the rows the specification query can
\* return (.first() of the filtered query; none if the set is empty).
ResolveSpecification(r) ==
    IF requests[r].specification_id # NULL
    THEN {s \in DOMAIN specs : s = requests[r].specification_id}
    ELSE ActiveSpecsOf(requests[r].product_id)

\* Mutant of ReferenceCandidates: a product without reference image is given
\* a default one.
ReferenceOrDefault(p) ==
    IF refs[p] = <<>> THEN {1}
    ELSE {k \in DOMAIN refs[p] :
             \A j \in DOMAIN refs[p] :
                 refs[p][j].is_primary => refs[p][k].is_primary}

\* process_generation, lines 167-176: order_by(is_primary.desc()), first row.
ReferenceCandidates(p) ==
    {k \in DOMAIN refs[p] :
        \A j \in DOMAIN refs[p] : refs[p][j].is_primary => refs[p][k].is_primary}

\* process_generation, lines 147-180: resolve specification and reference.
ProcessResolve(r) ==
    /\ r \in DOMAIN requests
    /\ proc[r].pc = "started"
    /\ LET p == requests[r].product_id
           found == ResolveSpecification(r)
       IN IF found = {}
          THEN /\ Fail(r, "No specification found for generation")
               /\ proc' = [proc EXCEPT ![r].pc = "raised",
                                       ![r].active_seen = ActiveSpecsOf(p)]
          ELSE \E s \in found :
               IF specs[s].yaml_content \in RejectedDocs
               THEN /\ Fail(r, "yaml error")
                    /\ proc' = [proc EXCEPT ![r].pc = "raised", ![r].spec = s,
                                            ![r].active_seen = ActiveSpecsOf(p)]
               ELSE IF ReferenceCandidates(p) = {}
               THEN /\ Fail(r, "No reference images found for generation")
                    /\ proc' = [proc EXCEPT ![r].pc = "raised", ![r].spec = s,
                                            ![r].active_seen = ActiveSpecsOf(p)]
               ELSE \E k \in ReferenceCandidates(p) :
                    /\ proc' = [proc EXCEPT ![r].pc = "loop", ![r].spec = s,
                                  ![r].yaml = specs[s].yaml_content,
                                  ![r].ref = k,
                                  ![r].active_seen = ActiveSpecsOf(p)]
                    /\ UNCHANGED <<requests, images, clock, lastOp>>
    /\ UNCHANGED <<analyzerVars, raceVars, specVars, refVars, nextRequest, genFiles, calls, bg, cancelAt>>

\* _generate_single_image: the bytes of the temporary output file.  The file
\* is created empty; generate_image_from_specs writes it only when the
\* response has an image part and otherwise only logs a warning.
GenerateSingleImage(out) == IF out = "image" THEN 1 ELSE 0

AdapterOutcomes == {"image", "no_image", "raise"}

\* The clock is read every half second: _generate_filename formats
\* datetime.now() with strftime("%Y%m%d_%H%M%S"), which drops everything
\* below the second, so two consecutive reads can give the same timestamp.
TicksPerSecond == 2
Timestamp(now) == now \div TicksPerSecond

\* _generate_filename: hashlib.md5(original_filename + timestamp), first 8
\* hex digits, where original_filename is gen_{request.id}_{i+1}.png.  The
\* digest prefix is a function of the name and the timestamp into 16^8
\* values and is not injective; HashRange keeps that at the size of the
\* model (the names of one request differ, names of two requests can agree).
HashRange == 3
HashPart(r, idx, timestamp) == (2 * r + idx + timestamp) % HashRange

\* save_generated_image: {slug}/generated/{year}/{month}/gen_{timestamp}_
\* {hash}.png, the file is opened with mode "wb".
GeneratedPath(p, r, idx, now) ==
    <<p, Timestamp(now), HashPart(r, idx, Timestamp(now))>>

ImageRow(r, idx, size, path) ==
    [generation_request_id |-> r, product_id |-> requests[r].product_id,
     generation_index |-> idx, file_size_bytes |-> size, storage_path |-> path]

\* process_generation, lines 185-220: one iteration of the loop.
ProcessCall(r, out) ==
    /\ r \in DOMAIN requests
    /\ proc[r].pc = "loop"
    /\ proc[r].i < requests[r].image_count
    /\ calls' = [calls EXCEPT ![r] = Append(@,
                    [out |-> out, doc |-> proc[r].yaml, ref |-> proc[r].ref,
                     run |-> proc[r].runs, active |-> proc[r].active_seen])]
    /\ IF out = "raise"
       THEN /\ Fail(r, "adapter error")
            /\ proc' = [proc EXCEPT ![r].pc = "raised"]
            /\ UNCHANGED genFiles
       ELSE LET image_data == GenerateSingleImage(out)
                idx == proc[r].i + 1
                path == GeneratedPath(requests[r].product_id, r, idx,
                                      clock)
            IN IF image_data # 0
               THEN /\ genFiles' = [k \in (DOMAIN genFiles) \cup {path} |->
                                      IF k = path THEN image_data
                                      ELSE genFiles[k]]
                    /\ clock' = clock + 1
                    /\ proc' = [proc EXCEPT ![r].i = idx,
                                  ![r].pending = Append(@,
                                      ImageRow(r, idx, image_data, path))]
                    /\ UNCHANGED <<requests, images, lastOp>>
               ELSE /\ proc' = [proc EXCEPT ![r].i = idx]
                    /\ UNCHANGED <<requests, images, genFiles, clock, lastOp>>
    /\ UNCHANGED <<analyzerVars, raceVars, specVars, refVars, nextRequest, bg, cancelAt>>

\* process_generation, lines 222-230: completed, completed_at, commit.
ProcessFinish(r) ==
    /\ r \in DOMAIN requests
    /\ proc[r].pc = "loop"
    /\ proc[r].i = requests[r].image_count
    /\ requests' = [requests EXCEPT ![r].status = "completed",
                                    ![r].completed_at = clock]
    /\ clock' = clock + 1
    /\ images' = CommitPending(images, proc[r].pending)
    /\ proc' = [proc EXCEPT ![r].pc = "returned"]
    /\ lastOp' = [op |-> "process_generation", id |-> r, res |-> "returned"]
    /\ UNCHANGED <<analyzerVars, raceVars, specVars, refVars, nextRequest, genFiles, calls, bg, cancelAt>>

\* GET /generation-requests/{request_id}
GetGenerationRequest(r) ==
    IF r \in DOMAIN requests THEN "200" ELSE "404"

\* DELETE /generation-requests/{request_id}.  For a pending or processing
\* request the handler calls generation_service.cancel_generation, which
\* GenerationService does not define: AttributeError, nothing is deleted.
DeleteGenerationRequest(r) ==
    /\ IF r \notin DOMAIN requests
       THEN /\ lastOp' = [op |-> "delete_generation_request", id |-> r,
                          res |-> "404"]
            /\ UNCHANGED <<requests, images, genFiles, cancelAt>>
       ELSE IF requests[r].status \in {"pending", "processing"}
       THEN /\ lastOp' = [op |-> "delete_generation_request", id |-> r,
                          res |-> "AttributeError"]
            /\ cancelAt' = [cancelAt EXCEPT ![r] =
                              IF @ = "never" THEN requests[r].status ELSE @]
            /\ UNCHANGED <<requests, images, genFiles>>
       ELSE /\ genFiles' = [k \in (DOMAIN genFiles) \
                               {ImagesOf(r)[j].storage_path :
                                   j \in DOMAIN ImagesOf(r)} |-> genFiles[k]]
            /\ images' = SelectSeq(images,
                            LAMBDA img : img.generation_request_id # r)
            /\ requests' = [q \in (DOMAIN requests) \ {r} |-> requests[q]]
            /\ lastOp' = [op |-> "delete_generation_request", id |-> r,
                          res |-> "ok"]
            /\ UNCHANGED cancelAt
    /\ UNCHANGED <<analyzerVars, raceVars, specVars, refVars, nextRequest, proc, calls, bg, clock>>

(***************************************************************************)
(* Reference images.  A row is identified by its product and its position  *)
(* in id order; the file of a row has a uuid name of its own.               *)
(***************************************************************************)
\* upload_reference_image, line 60: existing_count >= 4.
MaxReferenceImages == 4

\* What a client uploads: a decodable image, bytes PIL cannot open sent with
\* an image content type, or a file whose content type is not an image.
Uploads == {"image", "undecodable", "not_image"}

RECURSIVE SeqMax(_)
SeqMax(q) ==
    IF q = <<>> THEN 0
    ELSE LET m == SeqMax(Tail(q)) IN IF Head(q) > m THEN Head(q) ELSE m

\* upload_reference_image, lines 97-104: highest display_order plus 1, or 0.
NextDisplayOrder(p) ==
    IF refs[p] = <<>> THEN 0
    ELSE SeqMax([k \in DOMAIN refs[p] |-> refs[p][k].display_order]) + 1

Highest(a, b) == IF a > b THEN a ELSE b

RemoveAt(q, k) == [j \in 1..(Len(q) - 1) |-> IF j < k THEN q[j] ELSE q[j + 1]]

\* POST /products/{id}/reference-images and
\* ReferenceImageService.upload_reference_image.
UploadReferenceImage(p, file) ==
    /\ LET existing_count == Len(refs[p]) IN
       IF existing_count >= MaxReferenceImages
       THEN /\ lastOp' = [op |-> "upload_reference_image", id |-> p,
                          res |-> "400 maximum"]
            /\ UNCHANGED refVars
       ELSE IF file = "not_image"
       THEN /\ lastOp' = [op |-> "upload_reference_image", id |-> p,
                          res |-> "400 not an image"]
            /\ UNCHANGED refVars
       ELSE IF file = "undecodable"
       THEN /\ lastOp' = [op |-> "upload_reference_image", id |-> p,
                          res |-> "400 invalid image"]
            /\ UNCHANGED refVars
       ELSE /\ refFiles' = [refFiles EXCEPT ![p] = @ + 1]
            /\ refs' = [refs EXCEPT ![p] = Append(@,
                           [is_primary |-> (existing_count = 0),
                            display_order |-> NextDisplayOrder(p)])]
            /\ assigned' = [assigned EXCEPT ![p] = Highest(@, NextDisplayOrder(p))]
            /\ lastOp' = [op |-> "upload_reference_image", id |-> p,
                          res |-> "ok"]
    /\ UNCHANGED <<analyzerVars, raceVars, specVars, genVars>>

\* POST /products/{id}/upload-references (legacy), called with at least one
\* file.  The first file is validated by content type only and written to
\* storage; building its row then reads the names content, existing_count and
\* idx, which the function never binds: NameError before db.add.
UploadReferenceImages(p, file) ==
    /\ IF file = "not_image"
       THEN /\ lastOp' = [op |-> "upload_reference_images", id |-> p,
                          res |-> "400 invalid file type"]
            /\ UNCHANGED refVars
       ELSE /\ refFiles' = [refFiles EXCEPT ![p] = @ + 1]
            /\ lastOp' = [op |-> "upload_reference_images", id |-> p,
                          res |-> "NameError"]
            /\ UNCHANGED <<refs, assigned>>
    /\ UNCHANGED <<analyzerVars, raceVars, specVars, genVars>>

\* delete_file(storage_path) and db.delete of the k-th row of product p.
DeleteReferenceRow(p, k) ==
    /\ refFiles' = [refFiles EXCEPT ![p] = @ - 1]
    /\ refs' = [refs EXCEPT ![p] = RemoveAt(@, k)]
    /\ UNCHANGED assigned

\* DELETE /products/{url}/reference-images/{image_id} and
\* ReferenceImageService.delete_reference_image: the row is looked up by id
\* alone.  The id is that of the k-th row of product p, or of no row.
DeleteReferenceImage(p, k) ==
    /\ IF k \notin DOMAIN refs[p]
       THEN /\ lastOp' = [op |-> "delete_reference_image", id |-> p,
                          res |-> "404"]
            /\ UNCHANGED refVars
       ELSE /\ DeleteReferenceRow(p, k)
            /\ lastOp' = [op |-> "delete_reference_image", id |-> p,
                          res |-> "ok"]
    /\ UNCHANGED <<analyzerVars, raceVars, specVars, genVars>>

\* DELETE /products/{url}/references/{ref_id} (legacy): the row is looked up
\* by id and product.
DeleteReferenceImageLegacy(url, p, k) ==
    /\ IF url # p \/ k \notin DOMAIN refs[p]
       THEN /\ lastOp' = [op |-> "delete_reference", id |-> url,
                          res |-> "404"]
            /\ UNCHANGED refVars
       ELSE /\ DeleteReferenceRow(p, k)
            /\ lastOp' = [op |-> "delete_reference", id |-> p, res |-> "ok"]
    /\ UNCHANGED <<analyzerVars, raceVars, specVars, genVars>>

\* upload_reference_image step by step, for uploads that run at the same
\* time, each in a request and a session of its own.  No step takes a lock
\* and product_reference_images has no constraint on the rows per product.
IdleUpload == [pc |-> "idle", p |-> NULL, existing_count |-> 0,
               next_order |-> 0]

\* Lines 53-64: count the rows of the product, 400 at MaxReferenceImages.
UploadCount(w, p) ==
    /\ upl[w].pc = "idle"
    /\ LET existing_count == Len(refs[p]) IN
       IF existing_count >= MaxReferenceImages
       THEN /\ lastOp' = [op |-> "upload_reference_image", id |-> p,
                          res |-> "400 maximum"]
            /\ UNCHANGED upl
       ELSE /\ upl' = [upl EXCEPT ![w] = [pc |-> "counted", p |-> p,
                                          existing_count |-> existing_count,
                                          next_order |-> 0]]
            /\ UNCHANGED lastOp
    /\ UNCHANGED <<analyzerVars, txn, specVars, refVars, genVars>>

\* Lines 89-95: save_reference_image writes the file under a uuid name.
UploadSave(w) ==
    /\ upl[w].pc = "counted"
    /\ refFiles' = [refFiles EXCEPT ![upl[w].p] = @ + 1]
    /\ upl' = [upl EXCEPT ![w].pc = "saved"]
    /\ UNCHANGED <<analyzerVars, txn, specVars, refs, assigned, genVars,
                   lastOp>>

\* Lines 97-120: read the highest display_order, build the row, db.add.
UploadInsert(w) ==
    /\ upl[w].pc = "saved"
    /\ upl' = [upl EXCEPT ![w].pc = "added",
                          ![w].next_order = NextDisplayOrder(upl[w].p)]
    /\ UNCHANGED <<analyzerVars, txn, specVars, refVars, genVars, lastOp>>

\* Lines 121-124: db.commit() sends the INSERT and commits it.
UploadCommit(w) ==
    /\ upl[w].pc = "added"
    /\ refs' = [refs EXCEPT ![upl[w].p] = Append(@,
                   [is_primary |-> (upl[w].existing_count = 0),
                    display_order |-> upl[w].next_order])]
    /\ assigned' = [assigned EXCEPT ![upl[w].p] = Highest(@, upl[w].next_order)]
    /\ upl' = [upl EXCEPT ![w] = IdleUpload]
    /\ lastOp' = [op |-> "upload_reference_image", id |-> upl[w].p,
                  res |-> "ok"]
    /\ UNCHANGED <<analyzerVars, txn, specVars, refFiles, genVars>>

\* PUT /products/{id}/reference-images/{image_id}/order and
\* ReferenceImageService.update_display_order: the row is looked up by id
\* alone and its display_order is overwritten with the value sent; no other
\* row is renumbered.
UpdateDisplayOrder(p, k, new_order) ==
    /\ IF k \notin DOMAIN refs[p]
       THEN /\ lastOp' = [op |-> "update_display_order", id |-> p,
                          res |-> "404"]
            /\ UNCHANGED refVars
       ELSE /\ refs' = [refs EXCEPT ![p][k].display_order = new_order]
            /\ lastOp' = [op |-> "update_display_order", id |-> p,
                          res |-> "ok"]
            /\ UNCHANGED <<refFiles, assigned>>
    /\ UNCHANGED <<analyzerVars, raceVars, specVars, genVars>>

(***************************************************************************)
(* Initial state: empty tables; a product has no reference image or the    *)
(* one image its first upload creates (primary, display_order 0).          *)
(***************************************************************************)
FirstUpload == [is_primary |-> TRUE, display_order |-> 0]

Init ==
    /\ specs = <<>>
    /\ specFiles = <<>>
    /\ refs \in [Products -> {<<>>, <<FirstUpload>>}]
    /\ refFiles = [p \in Products |-> Len(refs[p])]
    /\ assigned = [p \in Products |-> NextDisplayOrder(p) - 1]
    /\ requests = <<>>
    /\ nextRequest = 1
    /\ images = <<>>
    /\ genFiles = <<>>
    /\ proc = [r \in PairIds |-> IdleProc]
    /\ calls = [r \in PairIds |-> <<>>]
    /\ bg = [r \in PairIds |-> "none"]
    /\ cancelAt = [r \in PairIds |-> "never"]
    /\ clock = 1
    /\ txn = [w \in Workers |-> IdleTxn]
    /\ upl = [w \in Workers |-> IdleUpload]
    /\ gpt = IdleAnalyzer
    /\ lastOp = [op |-> "none", id |-> NULL, res |-> "ok"]

(***************************************************************************)
(* The specification store on its own: create, analyze and both activate   *)
(* handlers, one at a time.  Product 1 has no reference image yet (analyze *)
(* is rejected for it), every other product has its first one.             *)
(***************************************************************************)
StoreInit ==
    /\ Init
    /\ refs = [p \in Products |-> IF p = 1 THEN <<>> ELSE <<FirstUpload>>]

StoreNext ==
    \/ /\ Len(specs) < MaxSpecs
       /\ \E p \in Products, text \in GoodDocs : CreateSpecification(p, text)
    \/ /\ Len(specs) < MaxSpecs
       /\ \E p \in Products, out \in {"yamlA", "raise"} : AnalyzeProduct(p, out)
    \/ \E s \in SpecIds : ActivateSpecification(s)
    \/ \E s \in SpecIds : ActivateSpecificationApi(s)

StoreSpec == StoreInit /\ [][StoreNext]_vars

(***************************************************************************)
(* Editing: specifications are created, produced by analysis, activated   *)
(* and updated through PUT /specifications/{id}, one handler at a time.    *)
(***************************************************************************)
EditNext ==
    \/ /\ Len(specs) < MaxSpecs
       /\ \E p \in Products, text \in EditDocs : CreateSpecification(p, text)
    \/ \E s \in SpecIds : ActivateSpecification(s)
    \/ /\ Len(specs) < MaxSpecs
       /\ \E s \in SpecIds, text \in EditDocs : UpdateSpecification(s, text)
    \/ /\ Len(specs) < MaxSpecs
       /\ \E p \in Products, out \in {"yamlB", "raise"} : AnalyzeProduct(p, out)

EditSpec == StoreInit /\ [][EditNext]_vars

(***************************************************************************)
(* Analysis: products are analyzed one request at a time; each request     *)
(* runs the retry loop against an API that answers or raises.              *)
(***************************************************************************)
AnalysisNext ==
    \/ /\ Len(specs) < MaxSpecs
       /\ \E p \in Products : AnalyzeBegin(p)
    \/ \E out \in ApiOutcomes : CallGptApi(out)
    \/ Backoff
    \/ AnalyzeFinish

AnalysisSpec == StoreInit /\ [][AnalysisNext]_vars

(***************************************************************************)
(* Reference images on their own: uploads and deletes through both pairs   *)
(* of routes, one at a time, starting without any image.  The clients     *)
(* work on two products.                                                   *)
(***************************************************************************)
RefProducts == {1, 2}
RaceProducts == {1, 2}

RefInit ==
    /\ Init
    /\ \A p \in Products : refs[p] = <<>>

RefNext ==
    \/ \E p \in RefProducts, file \in Uploads :
          /\ NextDisplayOrder(p) <= MaxOrder
          /\ UploadReferenceImage(p, file)
    \/ \E p \in RefProducts, file \in Uploads :
          /\ refFiles[p] < Len(refs[p]) + MaxOrphans
          /\ UploadReferenceImages(p, file)
    \/ \E p \in RefProducts, k \in 1..MaxReferenceImages :
          DeleteReferenceImage(p, k)
    \/ \E url, p \in RefProducts, k \in 1..MaxReferenceImages :
          DeleteReferenceImageLegacy(url, p, k)

RefSpec == RefInit /\ [][RefNext]_vars

(***************************************************************************)
(* Concurrent workers: after up to MaxRaceSpecs specifications were created *)
(* one at a time, two workers each run one create, analyze or activate     *)
(* handler with their steps interleaved.                                   *)
(***************************************************************************)
RaceInit ==
    /\ Init
    /\ \A p \in Products : refs[p] = <<FirstUpload>>

AllIdle == \A w \in Workers : txn[w].pc = "idle"

RaceNext ==
    \/ /\ AllIdle /\ Len(specs) < MaxRaceSpecs
       /\ \E p \in RaceProducts, text \in GoodDocs :
             CreateSpecification(p, text)
    \/ \E w \in Workers, p \in RaceProducts, text \in GoodDocs :
          CreateSpecificationRead(w, p, text)
    \/ \E w \in Workers, p \in RaceProducts : AnalyzeProductRead(w, p, "yamlA")
    \/ \E w \in Workers, s \in 1..(MaxRaceSpecs + 1) :
          ActivateSpecificationRead(w, s)
    \/ \E w \in Workers : BulkUpdateBegin(w)
    \/ \E w \in Workers : BulkUpdateEnd(w)
    \/ \E w \in Workers : SaveBeforeCommit(w)
    \/ \E w \in Workers : Commit(w)
    \/ \E w \in Workers : SaveAfterCommit(w)

RaceSpec == RaceInit /\ [][RaceNext]_vars

(***************************************************************************)
(* Late binding: specifications are created and activated while a request  *)
(* is created through the service and processed once, as process() is      *)
(* meant to be run.  Every product has its first reference image, and an  *)
(* adapter call returns an image or raises.                                *)
(***************************************************************************)
BindInit ==
    /\ Init
    /\ \A p \in Products : refs[p] = <<FirstUpload>>

BindNext ==
    \/ /\ Len(specs) < MaxBindSpecs
       /\ \E p \in Products, text \in GoodDocs : CreateSpecification(p, text)
    \/ \E s \in 1..MaxBindSpecs : ActivateSpecification(s)
    \/ /\ nextRequest \in RequestIds
       /\ \E p \in Products, sid \in {NULL} \cup (1..MaxBindSpecs),
             n \in 1..MaxImageCount : CreateGenerationRequest(p, sid, n)
    \/ \E r \in RequestIds : ProcessStart(r)
    \/ \E r \in RequestIds : ProcessResolve(r)
    \/ \E r \in RequestIds, out \in {"image", "raise"} : ProcessCall(r, out)
    \/ \E r \in RequestIds : ProcessFinish(r)

BindSpec == BindInit /\ [][BindNext]_vars

(***************************************************************************)
(* Reference selection: the images of product 1 are uploaded, deleted and  *)
(* reordered and its first specification is created; then a request for   *)
(* one image is created for the product and processed.                     *)
(***************************************************************************)
SelectInit ==
    /\ Init
    /\ \A p \in Products : refs[p] = <<>>

SelectNext ==
    \/ /\ specs = <<>>
       /\ CreateSpecification(1, "yamlA")
    \/ /\ requests = <<>>
       /\ NextDisplayOrder(1) <= MaxOrder
       /\ UploadReferenceImage(1, "image")
    \/ /\ requests = <<>>
       /\ \E k \in 1..MaxReferenceImages : DeleteReferenceImage(1, k)
    \/ /\ requests = <<>>
       /\ \E k \in 1..MaxReferenceImages, new_order \in 0..MaxOrder :
             UpdateDisplayOrder(1, k, new_order)
    \/ /\ nextRequest \in RequestIds
       /\ CreateGenerationRequest(1, NULL, 1)
    \/ \E r \in RequestIds : ProcessStart(r)
    \/ \E r \in RequestIds : ProcessResolve(r)
    \/ \E r \in RequestIds, out \in AdapterOutcomes : ProcessCall(r, out)
    \/ \E r \in RequestIds : ProcessFinish(r)

SelectSpec == SelectInit /\ [][SelectNext]_vars

(***************************************************************************)
(* Two requests processed at the same time: every product has a reference *)
(* image and gets its first specification; two requests are created (for   *)
(* the same product or for two products) and two invocations of             *)
(* process_generation, each with a session of its own, interleave.          *)
(***************************************************************************)
PairInit ==
    /\ Init
    /\ \A p \in Products : refs[p] = <<FirstUpload>>

PairNext ==
    \/ \E p \in Products :
          /\ p = Len(specs) + 1
          /\ CreateSpecification(p, "yamlA")
    \/ /\ Len(specs) = NumProducts
       /\ nextRequest \in PairIds
       /\ \E p \in Products, n \in 1..MaxImageCount :
             CreateGenerationRequest(p, NULL, n)
    \/ \E r \in PairIds : nextRequest \notin PairIds /\ ProcessStart(r)
    \/ \E r \in PairIds : ProcessResolve(r)
    \/ \E r \in PairIds, out \in AdapterOutcomes : ProcessCall(r, out)
    \/ \E r \in PairIds : ProcessFinish(r)

PairSpec == PairInit /\ [][PairNext]_vars

(***************************************************************************)
(* Uploads at the same time: images are uploaded one after the other, and  *)
(* at any moment two uploads may run with their steps interleaved.          *)
(***************************************************************************)
QuotaInit ==
    /\ Init
    /\ \A p \in Products : refs[p] = <<>>

NoUploadRunning == \A w \in Workers : upl[w].pc = "idle"

QuotaNext ==
    \/ \E p \in RefProducts :
          /\ NoUploadRunning
          /\ UploadReferenceImage(p, "image")
    \/ \E w \in Workers, p \in RefProducts : UploadCount(w, p)
    \/ \E w \in Workers : UploadSave(w)
    \/ \E w \in Workers : UploadInsert(w)
    \/ \E w \in Workers : UploadCommit(w)

QuotaSpec == QuotaInit /\ [][QuotaNext]_vars

(***************************************************************************)
(* Request lifecycle: a request is created through the endpoint, its       *)
(* background task runs, process_generation is invoked on the stored       *)
(* request up to MaxRuns times, and the request is deleted.  The store is  *)
(* one that earlier create_specification calls left: empty, or version 1   *)
(* of product 1 with a well-formed or a malformed document.  The client    *)
(* sends no specification_id, the id of that row, or an id of no row.      *)
(* Reference images were uploaded for no product, for product 1 only, for  *)
(* product 2 only, or for every product.                                   *)
(***************************************************************************)
StoreAfterCreate(text) == <<SpecRow(1, 1, text, "1.0", NULL)>>

LifeInit ==
    /\ \/ specs = <<>> /\ specFiles = <<>>
       \/ \E text \in {"yamlA", "yamlBad"} :
             /\ specs = StoreAfterCreate(text)
             /\ specFiles = SaveSpecification(<<>>, 1, text, 1)
    /\ \E uploaded \in {{}, {1}, {2}, Products} :
          refs = [p \in Products |-> IF p \in uploaded THEN <<FirstUpload>> ELSE <<>>]
    /\ refFiles = [p \in Products |-> Len(refs[p])]
    /\ assigned = [p \in Products |-> NextDisplayOrder(p) - 1]
    /\ requests = <<>>
    /\ nextRequest = 1
    /\ images = <<>>
    /\ genFiles = <<>>
    /\ proc = [r \in PairIds |-> IdleProc]
    /\ calls = [r \in PairIds |-> <<>>]
    /\ bg = [r \in PairIds |-> "none"]
    /\ cancelAt = [r \in PairIds |-> "never"]
    /\ clock = 1
    /\ txn = [w \in Workers |-> IdleTxn]
    /\ upl = [w \in Workers |-> IdleUpload]
    /\ gpt = IdleAnalyzer
    /\ lastOp = [op |-> "none", id |-> NULL, res |-> "ok"]

LifeNext ==
    \/ /\ nextRequest \in RequestIds
       /\ \E p \in Products, sid \in {NULL, 1, 2}, n \in 1..MaxImageCount :
             CreateGeneration(p, sid, n)
    \/ \E r \in RequestIds : BackgroundTask(r)
    \/ \E r \in RequestIds : ProcessStart(r)
    \/ \E r \in RequestIds : proc[r].runs < MaxRuns /\ ProcessAgain(r)
    \/ \E r \in RequestIds : ProcessResolve(r)
    \/ \E r \in RequestIds, out \in AdapterOutcomes : ProcessCall(r, out)
    \/ \E r \in RequestIds : ProcessFinish(r)
    \/ \E r \in RequestIds : DeleteGenerationRequest(r)

LifeSpec == LifeInit /\ [][LifeNext]_vars

(***************************************************************************)
(* Properties of the specification store.                                  *)
(***************************************************************************)
ActivateOps == {"activate_specification", "activate_api"}
CreateOps == {"create_specification", "analyze_product"}

\* C1: Single active version.  After any sequence of create_specification,
\* analyze_product and activate (service or POST route) operations run one
\* at a time, a product has at most one specification with is_active, and
\* right after a successful create or activate the created / activated row
\* is that active one.
C1_SingleActiveVersion ==
    /\ \A p \in Products : Cardinality(ActiveSpecsOf(p)) <= 1
    /\ (lastOp.op \in CreateOps \cup ActivateOps /\ lastOp.res = "ok")
        => ActiveSpecsOf(specs[lastOp.id].product_id) = {lastOp.id}

\* C1 witness: a rollback through the POST route made an older version the
\* active one while a newer version of the product exists.
C1_Witness ==
    /\ lastOp.op = "activate_api" /\ lastOp.res = "ok"
    /\ \E t \in SpecsOf(specs[lastOp.id].product_id) :
          /\ specs[t].version > specs[lastOp.id].version
          /\ specs[t].image_count # NULL

VersionsGapless ==
    \A p \in Products :
        /\ {specs[s].version : s \in SpecsOf(p)} = 1..Cardinality(SpecsOf(p))
        /\ \A s, t \in SpecsOf(p) : specs[s].version = specs[t].version => s = t

VersionStep ==
    /\ \A s \in DOMAIN specs :
          s \in DOMAIN specs' /\ specs'[s].version = specs[s].version
    /\ \A s \in (DOMAIN specs') \ (DOMAIN specs) :
          \A t \in SpecsOf(specs'[s].product_id) :
              specs'[s].version > specs[t].version
    /\ lastOp'.op \in ActivateOps => DOMAIN specs' = DOMAIN specs

\* C2: Version numbering.  Under create_specification and analyze_product
\* interleaved with activate calls, the versions of a product are exactly
\* 1..n without gap or duplicate, every new version is larger than all
\* versions that existed before it, and activate adds no row and changes no
\* version number.
C2_VersionNumbering == []VersionsGapless /\ [][VersionStep]_vars

\* C2 witness: a product has three versions, made by both create_specification
\* and analyze_product, and an activate call moved the active flag off the
\* newest one.
C2_Witness ==
    \E p \in Products :
        /\ Cardinality(SpecsOf(p)) = 3
        /\ \E s, t \in SpecsOf(p) :
              specs[s].image_count = NULL /\ specs[t].image_count # NULL
        /\ \E s \in SpecsOf(p) : specs[s].is_active /\ specs[s].version < 3
        /\ lastOp.op \in ActivateOps

SameButActive(old, new) == [new EXCEPT !.is_active = old.is_active] = old

ActivateFrame ==
    lastOp'.op \in ActivateOps =>
        /\ DOMAIN specs' = DOMAIN specs
        /\ specFiles' = specFiles
        /\ \A s \in DOMAIN specs : SameButActive(specs[s], specs'[s])
        /\ IF lastOp'.res = "ok"
           THEN \A s \in DOMAIN specs :
                   specs[s].product_id # specs[lastOp'.id].product_id
                       => specs'[s] = specs[s]
           ELSE specs' = specs

\* C3: Rollback frame.  activate_specification changes only the is_active
\* flags of the specifications of the activated row's product: no row is
\* added or removed, version, yaml_content and every other field of every
\* row stay as they were, and rows of other products are untouched.
C3_RollbackFrame == [][ActivateFrame]_vars

\* C3 witness: the service activated an older version, the newer version of
\* the product is still there and inactive, and another product keeps its
\* own active specification.
C3_Witness ==
    /\ lastOp.op = "activate_specification" /\ lastOp.res = "ok"
    /\ specs[lastOp.id].is_active
    /\ \E t \in SpecsOf(specs[lastOp.id].product_id) :
          specs[t].version > specs[lastOp.id].version /\ ~specs[t].is_active
    /\ \E u \in DOMAIN specs :
          specs[u].product_id # specs[lastOp.id].product_id /\ specs[u].is_active

(***************************************************************************)
(* Properties of the generation request lifecycle.                         *)
(***************************************************************************)
StatusMoves ==
    {<<"pending", "processing">>, <<"processing", "completed">>,
     <<"processing", "failed">>}

LifecycleStep ==
    \A r \in DOMAIN requests :
        r \in DOMAIN requests' =>
            /\ \/ requests'[r].status = requests[r].status
               \/ <<requests[r].status, requests'[r].status>> \in StatusMoves
            /\ requests[r].status \in Terminal =>
                  /\ requests'[r] = requests[r]
                  /\ ImagesOf(r)' = ImagesOf(r)

\* C4: Generation request lifecycle.  Under any sequence of create, process
\* and delete operations the status of a request only moves
\* pending -> processing -> completed | failed, and once it is completed or
\* failed nothing but the deletion of the request changes its status, its
\* timestamps or its generated images.
C4_Lifecycle == [][LifecycleStep]_vars

ExpectedIndices(n) == [k \in 1..n |-> k]

\* C5: Whenever process_generation ends with status completed for a request
\* with image_count = N, whatever the adapter did (image, response without
\* image, exception), the request has exactly N GeneratedImage rows with
\* generation_index 1..N in creation order and every stored file is
\* non-empty.
C5_CompletedHasAllImages ==
    \A r \in DOMAIN requests :
        (proc[r].pc \in Ended /\ requests[r].status = "completed") =>
            /\ IndicesOf(r) = ExpectedIndices(requests[r].image_count)
            /\ \A k \in DOMAIN ImagesOf(r) :
                  /\ ImagesOf(r)[k].storage_path \in DOMAIN genFiles
                  /\ genFiles[ImagesOf(r)[k].storage_path] > 0

\* The k-th adapter call of the request raised, in the invocation that has
\* now ended, and the k-1 calls before it produced images.
FailedAtCall(r, k) ==
    /\ proc[r].pc \in Ended
    /\ k \in DOMAIN calls[r]
    /\ k <= requests[r].image_count
    /\ calls[r][k].run = proc[r].runs
    /\ calls[r][k].out = "raise"
    /\ \A j \in 1..(k - 1) : calls[r][j].out = "image"

\* C6: Partial failure.  If the k-th adapter call of a request raises and the
\* k-1 earlier calls produced images, process_generation ends with status
\* failed, an error message, completed_at set and exactly the rows 1..k-1
\* persisted, and it makes no adapter call after the one that raised.
C6_PartialFailure ==
    \A r \in DOMAIN requests :
        /\ \A k \in DOMAIN calls[r] :
              (calls[r][k].run = proc[r].runs /\ calls[r][k].out = "raise") =>
                  /\ proc[r].pc = "raised"
                  /\ k = Len(calls[r])
        /\ \A k \in 1..MaxImageCount + 1 :
              FailedAtCall(r, k) =>
                  /\ requests[r].status = "failed"
                  /\ requests[r].error_message # NoMessage
                  /\ requests[r].completed_at # NULL
                  /\ IndicesOf(r) = ExpectedIndices(k - 1)

\* C6 witness: the second of two calls raised after the first produced an
\* image, and the request keeps that one image.
C6_Witness ==
    \E r \in DOMAIN requests :
        /\ FailedAtCall(r, 2)
        /\ requests[r].image_count = 2
        /\ Len(ImagesOf(r)) = 1

\* C7: Liveness of the creation path, in the form a finite run decides: once
\* the background task scheduled by POST /products/{id}/generate has run,
\* the request has left pending and is completed or failed.
C7_BackgroundTaskProcesses ==
    \A r \in DOMAIN requests :
        bg[r] \notin {"none", "scheduled"} => requests[r].status \in Terminal

\* C8: Deleting an existing generation request, in whichever of the four
\* statuses it is, removes its GeneratedImage rows and the request row, so
\* that a following fetch of the id returns 404.
C8_DeleteRemoves ==
    (lastOp.op = "delete_generation_request" /\ lastOp.res # "404") =>
        /\ lastOp.id \notin DOMAIN requests
        /\ Len(ImagesOf(lastOp.id)) = 0
        /\ GetGenerationRequest(lastOp.id) = "404"

\* C9: Cancellation.  A request whose cancel was called after creation and
\* before process started ends in status failed with a message indicating
\* the cancellation and has no GeneratedImage row.
C9_CancelBeforeProcess ==
    \A r \in DOMAIN requests :
        (cancelAt[r] = "pending" /\ proc[r].pc \in Ended) =>
            /\ requests[r].status = "failed"
            /\ requests[r].error_message = "cancelled"
            /\ Len(ImagesOf(r)) = 0

\* C10: Late binding.  A request created with specification_id = null is
\* processed against the specification that is active for its product when
\* process_generation resolves it: that specification's document is what
\* every adapter call receives.
C10_LateBinding ==
    \A r \in DOMAIN requests :
        requests[r].specification_id = NULL =>
            /\ proc[r].pc = "loop" => proc[r].spec \in proc[r].active_seen
            /\ \A k \in DOMAIN calls[r] :
                  \E s \in calls[r][k].active :
                      /\ specs[s].product_id = requests[r].product_id
                      /\ specs[s].yaml_content = calls[r][k].doc

\* C10 witness: version 2 was active when the request was created, version 1
\* was activated before processing, and both adapter calls of the completed
\* request received the document of version 1, which differs from that of
\* version 2.
C10_Witness ==
    \E r \in DOMAIN requests :
        /\ requests[r].specification_id = NULL
        /\ requests[r].status = "completed"
        /\ Len(calls[r]) = 2
        /\ \E s, t \in SpecsOf(requests[r].product_id) :
              /\ specs[s].version = 1 /\ specs[t].version = 2
              /\ proc[r].created_active = {t}
              /\ proc[r].active_seen = {s}
              /\ specs[s].yaml_content # specs[t].yaml_content
              /\ \A k \in 1..2 : calls[r][k].doc = specs[s].yaml_content

\* C11: Pinning.  A request created with a non-null specification_id is
\* processed against exactly that specification: the row process_generation
\* resolved is the pinned one and every adapter call received its document,
\* whether or not it is active and whatever was created or activated since
\* the request was created.
C11_Pinning ==
    \A r \in DOMAIN requests :
        requests[r].specification_id # NULL =>
            /\ proc[r].pc = "loop" => proc[r].spec = requests[r].specification_id
            /\ \A k \in DOMAIN calls[r] :
                  /\ requests[r].specification_id \in DOMAIN specs
                  /\ calls[r][k].doc =
                         specs[requests[r].specification_id].yaml_content

\* C11 witness: the request was pinned to version 1 while it was the active
\* one, version 2 with another document was created before processing and was
\* the active one when the request was processed, and both adapter calls of
\* the completed request received the document of version 1.
C11_Witness ==
    \E r \in DOMAIN requests :
        /\ requests[r].specification_id # NULL
        /\ requests[r].status = "completed"
        /\ Len(calls[r]) = 2
        /\ \E t \in SpecsOf(requests[r].product_id) :
              LET s == requests[r].specification_id IN
              /\ s \in SpecsOf(requests[r].product_id)
              /\ specs[s].version = 1 /\ specs[t].version = 2
              /\ proc[r].created_active = {s}
              /\ proc[r].active_seen = {t}
              /\ specs[s].yaml_content # specs[t].yaml_content
              /\ \A k \in 1..2 : calls[r][k].doc = specs[s].yaml_content

\* process_generation is about to resolve for request r, and it will find no
\* specification or no reference image.
NothingToGenerateFrom(r) ==
    /\ proc[r].pc = "started"
    /\ \/ ResolveSpecification(r) = {}
       \/ refs[requests[r].product_id] = <<>>

UnresolvedStep ==
    \A r \in DOMAIN requests :
        /\ (NothingToGenerateFrom(r) /\ proc'[r].pc # "started") =>
              /\ proc'[r].pc = "raised"
              /\ requests'[r].status = "failed"
              /\ requests'[r].error_message \notin {NoMessage, ""}
              /\ requests'[r].completed_at # NULL
              /\ calls'[r] = calls[r]
              /\ images' = images
              /\ genFiles' = genFiles
        /\ calls'[r] # calls[r] =>
              /\ proc[r].pc = "loop"
              /\ proc[r].spec \in DOMAIN specs
              /\ proc[r].ref \in DOMAIN refs[requests[r].product_id]

\* C12: If process_generation can resolve no specification for the request
\* (none active and none pinned, or the pinned id is of no row) or the
\* product has no reference image, the invocation ends with status failed, a
\* non-empty error message and completed_at set, without an adapter call and
\* without a new GeneratedImage row or file; an adapter call is only ever
\* made with a resolved specification and reference image.
C12_NothingToGenerateFrom == [][UnresolvedStep]_vars

\* C12 witness: a request of a product that has a specification but no
\* reference image was processed and failed without any adapter call.
C12_Witness ==
    \E r \in DOMAIN requests :
        /\ proc[r].pc = "raised"
        /\ proc[r].spec \in DOMAIN specs
        /\ refs[requests[r].product_id] = <<>>
        /\ requests[r].status = "failed"
        /\ requests[r].error_message = "No reference images found for generation"
        /\ calls[r] = <<>>
        /\ images = <<>>

UpdateStep ==
    (lastOp'.op = "update_specification" /\ lastOp'.res = "ok") =>
        LET new == lastOp'.id
            p == specs'[new].product_id
        IN /\ DOMAIN specs' = (DOMAIN specs) \cup {new}
           /\ new \notin DOMAIN specs
           /\ \A s \in DOMAIN specs : SameButActive(specs[s], specs'[s])
           /\ specs'[new].version = NextVersionByMax(p)
           /\ {s \in DOMAIN specs' :
                  specs'[s].product_id = p /\ specs'[s].is_active} = {new}

\* C17: Update-as-new-version.  Updating any existing specification through
\* PUT /specifications/{id}, also one that is not the latest or not the
\* active version, leaves the content of the existing rows unchanged and
\* appends a row whose version is the highest existing version of the
\* product plus 1 and which is afterwards the only active specification of
\* the product.
C17_UpdateAsNewVersion == [][UpdateStep]_vars

\* C18: An adapter or storage failure inside the generation loop is captured
\* by process_generation: the invocation in which an adapter call raised
\* ends with status failed and an error message on the request, and it
\* returns to its caller instead of raising.
C18_FailureNotRaised ==
    \A r \in DOMAIN requests :
        (/\ proc[r].pc \in Ended
         /\ calls[r] # <<>>
         /\ calls[r][Len(calls[r])].run = proc[r].runs
         /\ calls[r][Len(calls[r])].out = "raise") =>
            /\ requests[r].status = "failed"
            /\ requests[r].error_message # NoMessage
            /\ proc[r].pc = "returned"

(***************************************************************************)
(* Properties of the reference images.                                     *)
(***************************************************************************)
UploadOps == {"upload_reference_image", "upload_reference_images"}

QuotaStep ==
    \A p \in Products :
        (lastOp'.op \in UploadOps /\ lastOp'.id = p
            /\ Len(refs[p]) >= MaxReferenceImages) =>
            /\ lastOp'.res # "ok"
            /\ refs' = refs
            /\ refFiles' = refFiles

\* C13: Reference-image quota.  After any sequence of uploads and deletes run
\* one at a time a product never has more than 4 reference images, and an
\* upload to a product that already has 4 is rejected, creates no row and
\* writes no file to storage.
C13_ReferenceQuota ==
    /\ [](\A p \in Products : Len(refs[p]) <= MaxReferenceImages)
    /\ [][QuotaStep]_vars

PrimariesOf(p) == {k \in DOMAIN refs[p] : refs[p][k].is_primary}

\* C14: Primary reference image.  After any sequence of uploads and deletes,
\* whenever a product has at least one reference image exactly one of them
\* has is_primary = true.
C14_OnePrimary ==
    \A p \in Products :
        refs[p] # <<>> => Cardinality(PrimariesOf(p)) = 1

(***************************************************************************)
(* Properties of concurrent specification handlers.                        *)
(***************************************************************************)
\* C15: Concurrent creation.  When create_specification or analyze_product
\* calls for the same product run with their reads and commits interleaved,
\* no two committed specifications of a product have the same version
\* number (the model has no conflict error to surface, as the table has no
\* constraint that could raise one).
C15_NoDuplicateVersion ==
    \A s, t \in DOMAIN specs :
        (specs[s].product_id = specs[t].product_id
            /\ specs[s].version = specs[t].version) => s = t

\* C16: Concurrent activation.  When create_specification and
\* activate_specification calls on the same product run with interleaved
\* steps, no state in which both have committed has two specifications of
\* that product with is_active = true.
C16_OneActiveAfterRace ==
    (\A w \in Workers : txn[w].pc = "done") =>
        \A p \in Products : Cardinality(ActiveSpecsOf(p)) <= 1

(***************************************************************************)
(* Properties of the analysis.                                             *)
(***************************************************************************)
\* The API calls of the analysis so far and the one that ended the loop.
ApiCalls == Len(gpt.log)
LastOutcome == gpt.log[ApiCalls]
LoopEnded == gpt.pc \in {"parse", "done"} /\ ApiCalls > 0

EndedUnparseable ==
    /\ gpt.pc = "done" /\ ApiCalls > 0
    /\ LastOutcome \in RejectedDocs \cup {Fenced(t) : t \in RejectedDocs}

DegradedPersisted ==
    EndedUnparseable =>
        /\ gpt.result = "raw_response"
        /\ lastOp.op = "analyze_product" /\ lastOp.res = "ok"
        /\ lastOp.id = Len(specs)
        /\ specs[lastOp.id].product_id = gpt.p
        /\ specs[lastOp.id].yaml_content = "raw_response: " \o LastOutcome
        /\ specs[lastOp.id].derived = NoFields
        /\ specs[lastOp.id].version = Cardinality(SpecsOf(gpt.p))
        /\ ActiveSpecsOf(gpt.p) = {lastOp.id}
        /\ specFiles[<<gpt.p, specs[lastOp.id].version>>]
               = specs[lastOp.id].yaml_content

EmptyResponseStep ==
    (gpt.pc = "call" /\ gpt'.pc # "call"
        /\ gpt'.log[Len(gpt'.log)] = "empty") =>
        /\ gpt'.pc = "done" /\ gpt'.result = "APIError"
        /\ lastOp'.res = "500"
        /\ specs' = specs
        /\ specFiles' = specFiles

StoredIterations(r) ==
    {k \in 1..proc[r].i : \E row \in {proc[r].pending[j] :
                                          j \in DOMAIN proc[r].pending} :
                              row.generation_index = k}

CommittedIndices(r) ==
    {ImagesOf(r)[j].generation_index : j \in DOMAIN ImagesOf(r)}

\* C21: Incremental persistence.  While a request is processing, between two
\* adapter calls of process_generation every image already produced by the
\* current invocation has its generated_images row committed (a poll of the
\* images of the request sees it), and no row added to the session is left
\* uncommitted when the next adapter call is issued.
C21_IncrementalPersistence ==
    \A r \in DOMAIN requests :
        (proc[r].pc = "loop" /\ proc[r].i < requests[r].image_count)
            => /\ StoredIterations(r) \subseteq CommittedIndices(r)
               /\ proc[r].pending = <<>>

LowestOrder(p) ==
    {k \in DOMAIN refs[p] :
        \A j \in DOMAIN refs[p] :
            refs[p][k].display_order <= refs[p][j].display_order}

\* C22: Reference image selection.  The reference image of every adapter
\* call of process_generation is an image of the product marked primary if
\* the product has one, and otherwise an image with the lowest display_order
\* among the images of the product.
C22_ReferenceSelection ==
    \A r \in DOMAIN requests :
        \A c \in DOMAIN calls[r] :
            LET p == requests[r].product_id
            IN IF PrimariesOf(p) # {}
               THEN calls[r][c].ref \in PrimariesOf(p)
               ELSE calls[r][c].ref \in LowestOrder(p)

(***************************************************************************)
(* Claims about reference image uploads.                                   *)
(***************************************************************************)
DistinctOrders ==
    \A p \in Products :
        \A j, k \in DOMAIN refs[p] :
            refs[p][j].display_order = refs[p][k].display_order => j = k

\* An upload that adds a row gives it a display_order above every value an
\* earlier upload gave to an image of the product, deleted images included.
FreshOrderStep ==
    \A p \in Products :
        Len(refs'[p]) = Len(refs[p]) + 1
            => refs'[p][Len(refs'[p])].display_order > assigned[p]

\* C23: display_order assignment.  Under uploads and deletes without
\* reorder, every newly uploaded image gets a display_order strictly greater
\* than every display_order ever assigned to an image of that product, and
\* no two current images of a product share a display_order.
C23_DisplayOrderNeverReused == []DistinctOrders /\ [][FreshOrderStep]_vars

\* A step that is an upload of bytes PIL cannot open, sent with an image
\* content type, to a product below its quota.
UndecodableUpload(p) ==
    /\ Len(refs[p]) < MaxReferenceImages
    /\ \/ UploadReferenceImage(p, "undecodable")
       \/ UploadReferenceImages(p, "undecodable")

UploadStored(p) ==
    /\ lastOp'.res = "ok"
    /\ Len(refs'[p]) = Len(refs[p]) + 1
    /\ refFiles'[p] = refFiles[p] + 1

\* C24: Tolerated decode failure.  An upload whose content type is an image
\* type but whose bytes cannot be decoded succeeds: it stores the file and
\* creates the reference image row (with null width and height).
C24_DecodeFailureTolerated ==
    [][\A p \in Products : UndecodableUpload(p) => UploadStored(p)]_vars

(***************************************************************************)
(* Claims about the documents of specification versions.                   *)
(***************************************************************************)
\* The row a step appended holds the text and, as derived columns, what the
\* text yields or null.
CreatedFrom(text) ==
    /\ lastOp'.res = "ok"
    /\ Len(specs') = Len(specs) + 1
    /\ specs'[Len(specs')].yaml_content = text
    /\ specs'[Len(specs')].derived \in {DerivedFields(text), NoFields}

CreationStep ==
    \A text \in EditDocs :
        /\ \A p \in Products :
               CreateSpecification(p, text) => CreatedFrom(text)
        /\ \A s \in DOMAIN specs :
               UpdateSpecification(s, text) => CreatedFrom(text)

SameTextSameFields ==
    \A s, t \in DOMAIN specs :
        specs[s].yaml_content = specs[t].yaml_content
            => specs[s].derived = specs[t].derived

\* C25: Derived quick-access fields never abort creation.  For every document
\* text (complete mapping, mapping without the sections, scalar, malformed
\* YAML) create_specification and update_specification succeed and store
\* the derived columns as the extracted values or null, and two versions with
\* the same document text have the same derived columns.
C25_DerivedNeverAbort == []SameTextSameFields /\ [][CreationStep]_vars

(***************************************************************************)
(* Claims about the bookkeeping and independence of generation requests.   *)
(***************************************************************************)
\* C26: Request bookkeeping.  For every generation request: pending implies
\* started_at, completed_at and error_message are null; processing implies
\* started_at is set and completed_at is null; completed_at is set exactly
\* when the status is completed or failed; error_message is set only when
\* the status is failed.
C26_RequestBookkeeping ==
    \A r \in DOMAIN requests :
        LET q == requests[r] IN
        /\ q.status = "pending"
               => /\ q.started_at = NULL
                  /\ q.completed_at = NULL
                  /\ q.error_message = NoMessage
        /\ q.status = "processing"
               => q.started_at # NULL /\ q.completed_at = NULL
        /\ q.completed_at # NULL <=> q.status \in Terminal
        /\ q.error_message # NoMessage => q.status = "failed"

OwnRows ==
    \A r \in DOMAIN requests :
        /\ \A j \in DOMAIN ImagesOf(r) :
               ImagesOf(r)[j].product_id = requests[r].product_id
        /\ IndicesOf(r) = [k \in 1..Len(ImagesOf(r)) |-> k]

DistinctPaths ==
    \A j, k \in DOMAIN images :
        images[j].storage_path = images[k].storage_path => j = k

\* Whatever the other request does, a request whose adapter calls all
\* returned ends completed and one whose call raised ends failed.
OwnOutcome ==
    \A r \in DOMAIN requests :
        proc[r].pc \in Ended
            => LET raised == \E c \in DOMAIN calls[r] :
                                 calls[r][c].out = "raise"
               IN requests[r].status
                      = (IF raised THEN "failed" ELSE "completed")

\* C27: Independent requests.  When two generation requests are processed
\* concurrently, the generated_images rows of each request belong to it and
\* carry the indices 1..k in order, no two rows share a storage path (no
\* file of one request is overwritten by the other), and the terminal
\* status of a request is decided by its own adapter calls.
C27_IndependentRequests == OwnRows /\ DistinctPaths /\ OwnOutcome

FileOf(s) == <<specs[s].product_id, specs[s].version>>

FileMatchesRow ==
    \A s \in DOMAIN specs :
        /\ FileOf(s) \in DOMAIN specFiles
        /\ specFiles[FileOf(s)] = specs[s].yaml_content

FileKept ==
    \A k \in DOMAIN specFiles :
        k \in DOMAIN specFiles' /\ specFiles'[k] = specFiles[k]

\* C28: Stored document fidelity.  After any sequence of create, analyze and
\* update calls, the file v{n}.yaml of a product holds exactly the
\* yaml_content of every specification row of version n of that product,
\* and a file once written is never replaced by a different document.
C28_DocumentFidelity == []FileMatchesRow /\ [][FileKept]_vars

\* C29: Product isolation of generation.  Whenever the current invocation of
\* process_generation has passed a specification document to the adapter,
\* that specification belongs to the product of the request.
C29_ProductIsolation ==
    \A r \in DOMAIN requests :
        (/\ proc[r].spec # NULL
         /\ \E c \in DOMAIN calls[r] : calls[r][c].run = proc[r].runs)
            => specs[proc[r].spec].product_id = requests[r].product_id

\* C30: Quota under concurrency.  With uploads for the same product running
\* at the same time, their steps interleaved, the product never has more
\* than MaxReferenceImages reference image rows.
C30_QuotaUnderConcurrency ==
    \A p \in Products : Len(refs[p]) <= MaxReferenceImages

====
